---- MODULE Spec2Model ----
(***************************************************************************)
(* Aetheria journal: in-memory note collection, local cache, remote merge  *)
(* and debounced save pipeline.                                            *)
(*                                                                         *)
(* One clock tick stands for 500 ms.  Note ids are small naturals (uuids   *)
(* in the program); note text is a natural that names the edit which       *)
(* produced it, so that two different edits never leave equal text.        *)
(***************************************************************************)
EXTENDS Naturals, Integers, Sequences, FiniteSets, TLC

(***************************************************************************)
(* Bounds of the model.                                                    *)
(***************************************************************************)
NumNotes == 2
MaxEdits == 2
MaxStamp == 2
MaxNew == 1
MaxChanges == 2
MaxAnalyses == 1

(***************************************************************************)
(* Constants of the program.                                               *)
(***************************************************************************)
DebounceTicks == 1
DisplayTicks == 4
STORAGE_KEY == "atheria-journal-notes"
LEGACY_STORAGE_KEY == "serenity-journal-notes"

VARIABLES
    notes,            \* App: const [notes, setNotes]
    selectedNoteId,   \* App: const [selectedNoteId, setSelectedNoteId]
    now,              \* Date.now(), as far as stamps are compared
    savingStatus,     \* 'idle' | 'saving' | 'saved' | 'error'
    saveTimer,        \* the debounce timer and the note value its closure holds
    inflight,         \* remote writes sent and not yet settled
    removing,         \* remote deletes sent and not yet settled (note ids)
    displayTimers,    \* pending saved -> idle timers (ticks left of each)
    remote,           \* the remote document store, by note id
    snapQueue,        \* snapshots delivered by the subscription, not yet merged
    unloadInstalled,  \* whether the beforeunload interception is installed
    hist,             \* history of the pipeline (what the claims speak about)
    mrg,              \* one application of the merge rule: input and result
    storage,          \* localStorage: key -> stored text
    pendingNotes,     \* a setNotes(...) queued by an effect, not yet rendered
    pc,               \* where the mounted component is in its effect cycle
    cacheHist,        \* history of the cache (what the claims speak about)
    ai,               \* App: isAnalyzing, and the analysis requests in flight
    sidebar           \* App: searchTerm, moodFilter, showFavorites, sortBy, sortOrder

pipeVars == <<selectedNoteId, now, savingStatus, saveTimer, inflight, removing,
              displayTimers, remote, snapQueue, unloadInstalled, hist>>
cacheVars == <<storage, pendingNotes, pc, cacheHist, ai, sidebar>>
vars == <<notes, pipeVars, removing, mrg, cacheVars>>

NoteIds == 1..NumNotes
NoId == 0

(***************************************************************************)
(* types.ts: Note.  opt is the set of the optional keys the object has     *)
(* (mood?, moodHistory?, aiSummary?, aiReflection?, isFavorite?); a key    *)
(* not in opt reads as undefined and its field holds the default below.    *)
(***************************************************************************)
OptionalKeys == {"mood", "moodHistory", "aiSummary", "aiReflection", "isFavorite"}

MkNote(id, content, createdAt, updatedAt) ==
    [id |-> id, title |-> "", content |-> content,
     createdAt |-> createdAt, updatedAt |-> updatedAt,
     tags |-> <<>>, isFavorite |-> FALSE,
     mood |-> "", moodHistory |-> <<>>, aiSummary |-> "", aiReflection |-> "",
     opt |-> {"isFavorite"}]

Ids(coll) == {coll[i].id : i \in 1..Len(coll)}

HasId(coll, id) == \E i \in 1..Len(coll) : coll[i].id = id

\* Array.prototype.find(n => n.id === id): the first match
Find(coll, id) == coll[CHOOSE i \in 1..Len(coll) :
                          /\ coll[i].id = id
                          /\ \A j \in 1..(i - 1) : coll[j].id # id]

(***************************************************************************)
(* The merge rule applied to one incoming snapshot (spec 4.4).  The result *)
(* has one note per snapshot note; a local id absent from the snapshot is  *)
(* dropped.                                                                *)
(***************************************************************************)
KeepLocalOnTie(local, fetched) == local.updatedAt >= fetched.updatedAt

KeepLocalIfOlder(local, fetched) == local.updatedAt < fetched.updatedAt

KeepLocal(local, fetched) == local.updatedAt > fetched.updatedAt

MergeOne(prevNotes, fetched) ==
    IF HasId(prevNotes, fetched.id) /\ KeepLocal(Find(prevNotes, fetched.id), fetched)
    THEN Find(prevNotes, fetched.id)
    ELSE fetched

SelectSeq2(seq, keep) ==
    LET F[i \in 0..Len(seq)] ==
            IF i = 0 THEN <<>>
            ELSE IF keep[i] THEN Append(F[i - 1], seq[i]) ELSE F[i - 1]
    IN F[Len(seq)]

MergeKeepingLocalOnly(prevNotes, snapshot) ==
    [i \in 1..Len(snapshot) |-> MergeOne(prevNotes, snapshot[i])]
    \o SelectSeq2(prevNotes, [i \in 1..Len(prevNotes) |-> ~HasId(snapshot, prevNotes[i].id)])

MergeSnapshot(prevNotes, snapshot) ==
    [i \in 1..Len(snapshot) |-> MergeOne(prevNotes, snapshot[i])]

(***************************************************************************)
(* Specification of one merge: the local collection and the snapshot are   *)
(* any two collections of distinct ids with stamps up to MaxStamp.         *)
(***************************************************************************)
\* text 1 marks a local copy, text 2 a snapshot copy
StampedNote(id, text, stamp) == MkNote(id, text, 0, stamp)

Collections(text) ==
    {<<>>}
    \cup {<<StampedNote(i, text, s)>> : i \in NoteIds, s \in 0..MaxStamp}
    \cup {<<StampedNote(p[1], text, s), StampedNote(p[2], text, t)>> :
            p \in {q \in NoteIds \X NoteIds : q[1] # q[2]},
            s \in 0..MaxStamp, t \in 0..MaxStamp}

NoTimer == [armed |-> FALSE, left |-> 0, note |-> MkNote(NoId, 0, 0, 0)]

\* edits: local edits so far; lastEdit: the note value the latest edit produced;
\* lastText: per note, the text of its latest local edit (0: never edited);
\* bursts: bursts of edits begun (an edit with no write scheduled begins one);
\* fired: debounce timers fired; attempts: remote writes sent;
\* deletes: deletions by the user; deleted: the ids deleted; removeFailed:
\* the ids whose remote delete was rejected; lastWritten: per note, whether
\* the value of its latest local edit has reached the remote store; failed:
\* whether a remote write was rejected.
NoHist == [edits |-> 0, lastEdit |-> MkNote(NoId, 0, 0, 0),
           lastText |-> [i \in NoteIds |-> 0],
           bursts |-> 0, fired |-> 0, attempts |-> 0,
           deletes |-> 0, deleted |-> {}, removeFailed |-> {},
           lastWritten |-> [i \in NoteIds |-> FALSE], failed |-> FALSE]

MergeIdle == [pc |-> "idle", local |-> <<>>, snap |-> <<>>, out |-> <<>>]

PipeIdle ==
    /\ selectedNoteId = NoId
    /\ now = 0
    /\ savingStatus = "idle"
    /\ saveTimer = NoTimer
    /\ inflight = <<>>
    /\ removing = <<>>
    /\ displayTimers = <<>>
    /\ remote = <<>>
    /\ snapQueue = <<>>
    /\ unloadInstalled = FALSE
    /\ hist = NoHist

NoAi == [isAnalyzing |-> FALSE, requests |-> <<>>,
         isContinuing |-> FALSE, continuing |-> <<>>, alerted |-> FALSE]

\* the sidebar's settings on mount; a moodFilter of null is "" here (both are
\* falsy and no note's mood is compared with them)
DefaultView == [searchTerm |-> "", moodFilter |-> "", showFavorites |-> FALSE,
                sortBy |-> "updatedAt", sortOrder |-> "desc"]

CacheIdle ==
    /\ storage = <<>>
    /\ pendingNotes = <<>>
    /\ pc = "off"
    /\ cacheHist = <<>>
    /\ ai = NoAi
    /\ sidebar = DefaultView

InitMerge ==
    /\ notes = <<>>
    /\ PipeIdle
    /\ CacheIdle
    /\ mrg \in {[pc |-> "input", local |-> l, snap |-> s, out |-> <<>>] :
                   l \in Collections(1), s \in Collections(2)}

ApplyMerge ==
    /\ mrg.pc = "input"
    /\ mrg' = [mrg EXCEPT !.pc = "merged", !.out = MergeSnapshot(mrg.local, mrg.snap)]
    /\ UNCHANGED <<notes, pipeVars, cacheVars>>

NextMerge == ApplyMerge

SpecMerge == InitMerge /\ [][NextMerge]_vars

(***************************************************************************)
(* The debounced save pipeline and the snapshot stream (spec 4.3 - 4.5, 5).*)
(***************************************************************************)
\* the pipeline is busy: status saving, or a scheduled write pending
Busy(status, timer) == status = "saving" \/ timer.armed

SyncUnloadOnStatusOnly(status, timer) == status = "saving"

\* the beforeunload interception follows the busy states
SyncUnload(status, timer) == Busy(status, timer)

\* a place of the store that holds no document
NoDoc == MkNote(NoId, 0, 0, 0)

\* the complete current set of the user's documents, in id order
SnapshotOf(store) == SelectSeq2(store, [i \in NoteIds |-> store[i] # NoDoc])

SelectionKeptAfterDelete(sel, id) == sel

\* deleteNote: deleting the selected note clears the selection
SelectionAfterDelete(sel, id) == IF sel = id THEN NoId ELSE sel

RemoveAt(seq, i) == [j \in 1..(Len(seq) - 1) |-> IF j < i THEN seq[j] ELSE seq[j + 1]]

\* updateNote's setNotes: the selected note gets the updates and Date.now()
ApplyUpdate(prevNotes, id, text, stamp) ==
    [i \in 1..Len(prevNotes) |->
        IF prevNotes[i].id = id
        THEN [prevNotes[i] EXCEPT !.content = text, !.updatedAt = stamp]
        ELSE prevNotes[i]]

RescheduleKeepingFirst(timer, note) ==
    IF timer.armed THEN timer
    ELSE [armed |-> TRUE, left |-> DebounceTicks, note |-> note]

\* the timer a mutation leaves armed: the pending one is cancelled, the new
\* one holds the note value of this mutation
Reschedule(timer, note) == [armed |-> TRUE, left |-> DebounceTicks, note |-> note]

InitPipe ==
    /\ notes = [i \in NoteIds |-> MkNote(i, 0, 0, 0)]
    /\ selectedNoteId = NoId
    /\ now = 1
    /\ savingStatus = "idle"
    /\ saveTimer = NoTimer
    /\ inflight = <<>>
    /\ removing = <<>>
    /\ displayTimers = <<>>
    /\ remote = [i \in NoteIds |-> MkNote(i, 0, 0, 0)]
    /\ snapQueue = <<[i \in NoteIds |-> MkNote(i, 0, 0, 0)]>>
    /\ unloadInstalled = FALSE
    /\ hist = NoHist
    /\ mrg = MergeIdle
    /\ CacheIdle

SelectNoteCancelling(id) ==
    /\ id # selectedNoteId
    /\ HasId(notes, id)
    /\ hist.edits + hist.deletes < MaxEdits
    /\ selectedNoteId' = id
    /\ saveTimer' = NoTimer
    /\ UNCHANGED hist
    /\ UNCHANGED <<notes, now, savingStatus, inflight, displayTimers,
                   remote, snapQueue, unloadInstalled, removing, mrg, cacheVars>>

\* Sidebar: onSelectNote={setSelectedNoteId}.  The selection is read by
\* updateNote alone, so selections are followed while edits remain.
SelectNote(id) ==
    /\ id # selectedNoteId
    /\ HasId(notes, id)
    /\ hist.edits + hist.deletes < MaxEdits
    /\ selectedNoteId' = id
    /\ UNCHANGED hist
    /\ UNCHANGED <<notes, now, savingStatus, saveTimer, inflight, displayTimers,
                   remote, snapQueue, unloadInstalled, removing, mrg, cacheVars>>

\* Editor onChange -> updateNote, then the pipeline schedules the write
UpdateNote ==
    /\ selectedNoteId # NoId
    /\ HasId(notes, selectedNoteId)
    /\ hist.edits + hist.deletes < MaxEdits
    /\ LET text == hist.edits + 1
           updated == ApplyUpdate(notes, selectedNoteId, text, now)
           value == Find(updated, selectedNoteId)
       IN /\ notes' = updated
          /\ savingStatus' = "saving"
          /\ saveTimer' = Reschedule(saveTimer, value)
          /\ unloadInstalled' = SyncUnload("saving", saveTimer')
          /\ hist' = [hist EXCEPT
                        !.edits = text,
                        !.lastEdit = value,
                        !.lastText[selectedNoteId] = text,
                        !.lastWritten[selectedNoteId] = FALSE,
                        !.bursts = IF saveTimer.armed THEN hist.bursts
                                                       ELSE hist.bursts + 1]
    /\ UNCHANGED <<selectedNoteId, now, inflight, displayTimers, remote, snapQueue,
                   removing, mrg, cacheVars>>

\* Date.now() after a tick.  Stamps are only compared with one another, so
\* the clock keeps their order and no more: it moves on when the current
\* value has been given to an edit.
Later(clock, stamped) == IF stamped.updatedAt = clock THEN clock + 1 ELSE clock

\* 500 ms pass; a timer that is due fires before more time passes
Tick ==
    /\ saveTimer.armed => saveTimer.left > 0
    /\ \A i \in 1..Len(displayTimers) : displayTimers[i] > 0
    /\ Later(now, hist.lastEdit) # now \/ saveTimer.armed \/ displayTimers # <<>>
    /\ now' = Later(now, hist.lastEdit)
    /\ saveTimer' = IF saveTimer.armed
                    THEN [saveTimer EXCEPT !.left = saveTimer.left - 1]
                    ELSE saveTimer
    /\ displayTimers' = [i \in 1..Len(displayTimers) |-> displayTimers[i] - 1]
    /\ UNCHANGED hist
    /\ UNCHANGED <<notes, selectedNoteId, savingStatus, inflight, remote, snapQueue,
                   unloadInstalled, removing, mrg, cacheVars>>

SaveTimerFireRepeating ==
    /\ saveTimer.armed
    /\ saveTimer.left = 0
    /\ inflight' = Append(inflight, saveTimer.note)
    /\ saveTimer' = [saveTimer EXCEPT !.left = DebounceTicks]
    /\ unloadInstalled' = SyncUnload(savingStatus, saveTimer')
    /\ hist' = [hist EXCEPT !.fired = hist.fired + 1,
                            !.attempts = hist.attempts + 1]
    /\ UNCHANGED <<notes, selectedNoteId, now, savingStatus, displayTimers, remote,
                   snapQueue, removing, mrg, cacheVars>>

\* the debounce timer's callback: send the write its closure holds
SaveTimerFire ==
    /\ saveTimer.armed
    /\ saveTimer.left = 0
    /\ inflight' = Append(inflight, saveTimer.note)
    /\ saveTimer' = NoTimer
    /\ unloadInstalled' = SyncUnload(savingStatus, saveTimer')
    /\ hist' = [hist EXCEPT !.fired = hist.fired + 1,
                            !.attempts = hist.attempts + 1]
    /\ UNCHANGED <<notes, selectedNoteId, now, savingStatus, displayTimers, remote,
                   snapQueue, removing, mrg, cacheVars>>

\* the status a settled write leaves
StatusOnSuccess == "saved"
StatusOnFailure == "error"

\* upsert resolved: the store holds the document, the subscription will
\* deliver the new complete set, the status shows saved for the display period
WriteOk(i) ==
    /\ i \in 1..Len(inflight)
    /\ remote' = [remote EXCEPT ![inflight[i].id] = inflight[i]]
    /\ snapQueue' = Append(snapQueue, SnapshotOf(remote'))
    /\ inflight' = RemoveAt(inflight, i)
    /\ savingStatus' = StatusOnSuccess
    /\ displayTimers' = Append(displayTimers, DisplayTicks)
    /\ unloadInstalled' = SyncUnload(savingStatus', saveTimer)
    /\ hist' = [hist EXCEPT !.lastWritten[inflight[i].id] =
                        @ \/ inflight[i].content = hist.lastText[inflight[i].id]]
    /\ UNCHANGED <<notes, selectedNoteId, now, saveTimer, removing, mrg, cacheVars>>

WriteFailRetrying(i) ==
    /\ i \in 1..Len(inflight)
    /\ inflight' = Append(RemoveAt(inflight, i), inflight[i])
    /\ savingStatus' = StatusOnFailure
    /\ unloadInstalled' = SyncUnload(savingStatus', saveTimer)
    /\ hist' = [hist EXCEPT !.attempts = IF hist.attempts < 2 * MaxEdits
                                          THEN hist.attempts + 1 ELSE hist.attempts,
                            !.failed = TRUE]
    /\ UNCHANGED <<notes, selectedNoteId, now, saveTimer, displayTimers, remote,
                   snapQueue, removing, mrg, cacheVars>>

\* upsert rejected (RemoteWriteError): surfaced, not retried
WriteFail(i) ==
    /\ i \in 1..Len(inflight)
    /\ inflight' = RemoveAt(inflight, i)
    /\ savingStatus' = StatusOnFailure
    /\ unloadInstalled' = SyncUnload(savingStatus', saveTimer)
    /\ hist' = [hist EXCEPT !.failed = TRUE]
    /\ UNCHANGED <<notes, selectedNoteId, now, saveTimer, displayTimers, remote,
                   snapQueue, removing, mrg, cacheVars>>

DisplayTimerFireOnlyFromSaved ==
    /\ displayTimers # <<>>
    /\ Head(displayTimers) = 0
    /\ savingStatus' = IF savingStatus = "saved" THEN "idle" ELSE savingStatus
    /\ displayTimers' = Tail(displayTimers)
    /\ unloadInstalled' = SyncUnload(savingStatus', saveTimer)
    /\ UNCHANGED hist
    /\ UNCHANGED <<notes, selectedNoteId, now, saveTimer, inflight, remote,
                   snapQueue, removing, mrg, cacheVars>>

\* the display period of a successful save is over
DisplayTimerFire ==
    /\ displayTimers # <<>>
    /\ Head(displayTimers) = 0
    /\ savingStatus' = "idle"
    /\ displayTimers' = Tail(displayTimers)
    /\ unloadInstalled' = SyncUnload(savingStatus', saveTimer)
    /\ UNCHANGED hist
    /\ UNCHANGED <<notes, selectedNoteId, now, saveTimer, inflight, remote,
                   snapQueue, removing, mrg, cacheVars>>

\* the subscription callback: merge the oldest undelivered snapshot
OnSnapshot ==
    /\ snapQueue # <<>>
    /\ notes' = MergeSnapshot(notes, Head(snapQueue))
    /\ snapQueue' = Tail(snapQueue)
    /\ UNCHANGED hist
    /\ UNCHANGED <<selectedNoteId, now, savingStatus, saveTimer, inflight,
                   displayTimers, remote, unloadInstalled, removing, mrg, cacheVars>>

\* deleteNote, confirmed: the note leaves the collection at once and the
\* remote delete is sent; a scheduled write of the note is not cancelled.
\* Deletions are followed while a change can still come after them.
RemoveNote(id) ==
    /\ HasId(notes, id)
    /\ hist.edits + hist.deletes + 1 < MaxEdits
    /\ notes' = SelectSeq2(notes, [i \in 1..Len(notes) |-> notes[i].id # id])
    /\ selectedNoteId' = SelectionAfterDelete(selectedNoteId, id)
    /\ removing' = Append(removing, id)
    /\ hist' = [hist EXCEPT !.deletes = hist.deletes + 1,
                            !.deleted = @ \cup {id}]
    /\ UNCHANGED <<now, savingStatus, saveTimer, inflight, displayTimers, remote,
                   snapQueue, unloadInstalled, mrg, cacheVars>>

\* remove(noteId) resolved: the document is gone and the subscription
\* delivers the new complete set
RemoveOk(k) ==
    /\ k \in 1..Len(removing)
    /\ remote' = [remote EXCEPT ![removing[k]] = NoDoc]
    /\ snapQueue' = IF remote' = remote THEN snapQueue
                    ELSE Append(snapQueue, SnapshotOf(remote'))
    /\ removing' = RemoveAt(removing, k)
    /\ UNCHANGED hist
    /\ UNCHANGED <<notes, selectedNoteId, now, savingStatus, saveTimer, inflight,
                   displayTimers, unloadInstalled, mrg, cacheVars>>

\* remove(noteId) rejected: logged, not retried, nothing rolled back
RemoveFail(k) ==
    /\ k \in 1..Len(removing)
    /\ removing' = RemoveAt(removing, k)
    /\ hist' = [hist EXCEPT !.removeFailed = @ \cup {removing[k]}]
    /\ UNCHANGED <<notes, selectedNoteId, now, savingStatus, saveTimer, inflight,
                   displayTimers, remote, snapQueue, unloadInstalled, mrg,
                   cacheVars>>

Next ==
    \/ \E id \in NoteIds : SelectNote(id)
    \/ UpdateNote
    \/ \E id \in NoteIds : RemoveNote(id)
    \/ \E k \in 1..MaxEdits : RemoveOk(k)
    \/ \E k \in 1..MaxEdits : RemoveFail(k)
    \/ Tick
    \/ SaveTimerFire
    \/ \E i \in 1..MaxEdits : WriteOk(i)
    \/ \E i \in 1..MaxEdits : WriteFail(i)
    \/ DisplayTimerFire
    \/ OnSnapshot

Spec == InitPipe /\ [][Next]_vars

(***************************************************************************)
(* The local cache: localStorage, JSON text and the two effects of App     *)
(* (load on mount, save after every change of notes).                      *)
(***************************************************************************)
RequiredKeys == {"id", "title", "content", "createdAt", "updatedAt", "tags"}

Digits == <<"0", "1", "2", "3", "4", "5", "6", "7", "8", "9">>
Numbers == 0..99
Titles == {"", "a"}
Moods == {"", "calm", "sad"}
Colors == {"#a", "#b"}
TagLists == {<<>>, <<"t">>}

\* JSON text of a number, a string, a boolean, an array of strings
\* NaN, the time value of an invalid Date, and null, which JSON.parse reads
\* where JSON.stringify wrote a NaN
NaN == 0 - 1
Null == 0 - 2

\* the Date range in model time: a day of DayLength, the last valid time
\* value MaxTimeValue, at the start of day MaxTimeValue \div DayLength
DayLength == 4
MaxTimeValue == 8
Dates == 0..(MaxTimeValue \div DayLength)
TimeClip(t) == IF t > MaxTimeValue THEN NaN ELSE t

Numeral(n) == IF n < 10 THEN Digits[n + 1]
              ELSE Digits[(n \div 10) + 1] \o Digits[(n % 10) + 1]
\* the text of a note's content: '' of a new note, else the edit's numeral
ContentText(n) == IF n = 0 THEN "" ELSE Numeral(n)
Quote(str) == "\"" \o str \o "\""
BoolText(b) == IF b THEN "true" ELSE "false"
ArrayText(strs) ==
    LET F[i \in 0..Len(strs)] ==
            IF i = 0 THEN "["
            ELSE F[i - 1] \o (IF i = 1 THEN "" ELSE ",") \o Quote(strs[i])
    IN F[Len(strs)] \o "]"
NumberText(n) == IF n \in {NaN, Null} THEN "null" ELSE Numeral(n)
EntryText(e) == [mood |-> Quote(e.mood), score |-> Numeral(e.score),
                 color |-> Quote(e.color), timestamp |-> NumberText(e.timestamp)]
HistoryText(h) == [i \in 1..Len(h) |-> EntryText(h[i])]


\* what JSON.parse reads back from such text
ReadNumber(text) == IF text = "null" THEN Null
                    ELSE CHOOSE n \in Numbers : Numeral(n) = text
ReadString(text, domain) == CHOOSE str \in domain : Quote(str) = text
ReadBool(text) == text = "true"
ReadArray(text) == CHOOSE strs \in TagLists : ArrayText(strs) = text
ReadEntry(obj) == [mood |-> ReadString(obj.mood, Moods),
                   score |-> ReadNumber(obj.score),
                   color |-> ReadString(obj.color, Colors),
                   timestamp |-> ReadNumber(obj.timestamp)]
ReadHistory(objs) == [i \in 1..Len(objs) |-> ReadEntry(objs[i])]

\* a stored item: getItem's null, or a text; a text is "" (empty), not JSON
\* (garbage), or the JSON of an array of objects, each object its members
NoItem == [kind |-> "null", objs |-> <<>>]
EmptyText == [kind |-> "empty", objs |-> <<>>]
Garbage == [kind |-> "garbage", objs |-> <<>>]

\* if (savedNotes): null and "" are falsy
Truthy(item) == item.kind \notin {"null", "empty"}

MemberText(note, key) ==
    CASE key = "id" -> Numeral(note.id)
      [] key = "title" -> Quote(note.title)
      [] key = "content" -> Quote(ContentText(note.content))
      [] key = "createdAt" -> NumberText(note.createdAt)
      [] key = "updatedAt" -> NumberText(note.updatedAt)
      [] key = "tags" -> ArrayText(note.tags)
      [] key = "isFavorite" -> BoolText(note.isFavorite)
      [] key = "mood" -> Quote(note.mood)
      [] key = "moodHistory" -> HistoryText(note.moodHistory)
      [] key = "aiSummary" -> Quote(note.aiSummary)
      [] key = "aiReflection" -> Quote(note.aiReflection)

\* JSON.stringify of one note: a member per key the object has
StringifyNote(note) ==
    [key \in RequiredKeys \cup note.opt |-> MemberText(note, key)]

JsonStringify(coll) ==
    [kind |-> "array", objs |-> [i \in 1..Len(coll) |-> StringifyNote(coll[i])]]

Has(obj, key) == key \in DOMAIN obj

ParseNote(obj) ==
    [id |-> ReadNumber(obj["id"]),
     title |-> ReadString(obj["title"], Titles),
     content |-> CHOOSE n \in Numbers : Quote(ContentText(n)) = obj["content"],
     createdAt |-> ReadNumber(obj["createdAt"]),
     updatedAt |-> ReadNumber(obj["updatedAt"]),
     tags |-> ReadArray(obj["tags"]),
     isFavorite |-> IF Has(obj, "isFavorite") THEN ReadBool(obj["isFavorite"]) ELSE FALSE,
     mood |-> IF Has(obj, "mood") THEN ReadString(obj["mood"], Moods) ELSE "",
     moodHistory |-> IF Has(obj, "moodHistory") THEN ReadHistory(obj["moodHistory"]) ELSE <<>>,
     aiSummary |-> IF Has(obj, "aiSummary") THEN ReadString(obj["aiSummary"], Titles) ELSE "",
     aiReflection |-> IF Has(obj, "aiReflection")
                      THEN ReadString(obj["aiReflection"], Titles) ELSE "",
     opt |-> DOMAIN obj \cap OptionalKeys]

\* JSON.parse: throws (ok = FALSE) unless the text is JSON
JsonParse(item) ==
    [ok |-> item.kind = "array",
     value |-> [i \in 1..Len(item.objs) |-> ParseNote(item.objs[i])]]

NoPending == [set |-> FALSE, value |-> <<>>]
SetNotes(value) == [set |-> TRUE, value |-> value]

\* the load effect's setNotes, if it calls it: the current key first, and
\* after a miss or a parse failure the legacy key
LoadedWithoutFallback(store) ==
    IF Truthy(store[STORAGE_KEY])
    THEN IF JsonParse(store[STORAGE_KEY]).ok
         THEN SetNotes(JsonParse(store[STORAGE_KEY]).value)
         ELSE NoPending
    ELSE IF Truthy(store[LEGACY_STORAGE_KEY]) /\ JsonParse(store[LEGACY_STORAGE_KEY]).ok
         THEN SetNotes(JsonParse(store[LEGACY_STORAGE_KEY]).value)
         ELSE NoPending

Loaded(store) ==
    IF Truthy(store[STORAGE_KEY]) /\ JsonParse(store[STORAGE_KEY]).ok
    THEN SetNotes(JsonParse(store[STORAGE_KEY]).value)
    ELSE IF Truthy(store[LEGACY_STORAGE_KEY]) /\ JsonParse(store[LEGACY_STORAGE_KEY]).ok
         THEN SetNotes(JsonParse(store[LEGACY_STORAGE_KEY]).value)
         ELSE NoPending

\* whether the load effect gets to localStorage.getItem(LEGACY_STORAGE_KEY):
\* it returns before that only after a parse of the current key's text
ReadsLegacy(store) ==
    ~(Truthy(store[STORAGE_KEY]) /\ JsonParse(store[STORAGE_KEY]).ok)

\* notes the cache may hold when the page opens: one written by createNote
\* and edited, one of an older version (no isFavorite, a mood)
CachedNote == [MkNote(1, 1, 0, 1) EXCEPT !.title = "a", !.isFavorite = TRUE,
                                         !.tags = <<"t">>]
OlderNote == [MkNote(2, 2, 0, 0) EXCEPT !.opt = {"mood"}, !.mood = "calm"]

StoredTexts ==
    {EmptyText, Garbage}
    \cup {JsonStringify(c) : c \in {<<>>, <<CachedNote>>, <<OlderNote, CachedNote>>}}

\* cacheHist: atMount, the item under the current key when the page opened;
\* fresh, no change by the user since; expect, the notes in memory when the
\* page was closed (a sequence of one collection, or empty on the first run);
\* created, notes made by createNote; changes, changes made by the user;
\* legacyRead, the load effect of this mount read the legacy key; legacy0,
\* the item under the legacy key at the start; last, the last click on a
\* note's star or bin: the note, the notes and the selection before it (before
\* the first of two clicks in a row on one star), and the changes after it;
\* user, who is using the page; owner, for every note made by createNote its
\* id with the user who made it.
Users == {"A", "B"}

NoLast == [op |-> "none", id |-> NoId, count |-> 0, notes |-> <<>>, sel |-> NoId,
           at |-> 0]

InitCache ==
    /\ notes = <<>>
    /\ selectedNoteId = NoId
    /\ now = 1
    /\ savingStatus = "idle"
    /\ saveTimer = NoTimer
    /\ inflight = <<>>
    /\ removing = <<>>
    /\ displayTimers = <<>>
    /\ remote = <<>>
    /\ snapQueue = <<>>
    /\ unloadInstalled = FALSE
    /\ hist = NoHist
    /\ mrg = MergeIdle
    /\ storage \in [{STORAGE_KEY, LEGACY_STORAGE_KEY} -> StoredTexts \cup {NoItem}]
    /\ pendingNotes = NoPending
    /\ pc = "load"
    /\ cacheHist = [atMount |-> storage[STORAGE_KEY], fresh |-> TRUE,
                    expect |-> <<>>, created |-> 0, changes |-> 0,
                    legacyRead |-> FALSE, legacy0 |-> storage[LEGACY_STORAGE_KEY],
                    last |-> NoLast, user |-> "A", owner |-> {}]
    /\ ai = NoAi
    /\ sidebar = DefaultView

appFrame == <<now, savingStatus, saveTimer, inflight, displayTimers, remote,
              snapQueue, unloadInstalled, hist, mrg, removing, sidebar>>
cacheFrame == <<appFrame, ai>>

\* useEffect(() => {...}, []): load notes from local storage on mount
LoadEffect ==
    /\ pc = "load"
    /\ pendingNotes' = Loaded(storage)
    /\ pc' = "save"
    /\ cacheHist' = [cacheHist EXCEPT !.legacyRead = ReadsLegacy(storage)]
    /\ UNCHANGED <<notes, selectedNoteId, storage, cacheFrame>>

\* useEffect(() => {...}, [notes]): save the notes of this render
SaveEffectClearingLegacy ==
    /\ pc = "save"
    /\ storage' = [storage EXCEPT ![STORAGE_KEY] = JsonStringify(notes),
                                  ![LEGACY_STORAGE_KEY] = NoItem]
    /\ pc' = IF pendingNotes.set THEN "render" ELSE "ready"
    /\ UNCHANGED <<notes, selectedNoteId, pendingNotes, cacheHist, cacheFrame>>

SaveEffect ==
    /\ pc = "save"
    /\ storage' = [storage EXCEPT ![STORAGE_KEY] = JsonStringify(notes)]
    /\ pc' = IF pendingNotes.set THEN "render" ELSE "ready"
    /\ UNCHANGED <<notes, selectedNoteId, pendingNotes, cacheHist, cacheFrame>>

\* the render that a setNotes of the load effect asked for
Render ==
    /\ pc = "render"
    /\ notes' = pendingNotes.value
    /\ pendingNotes' = NoPending
    /\ pc' = "save"
    /\ UNCHANGED <<selectedNoteId, storage, cacheHist, cacheFrame>>

\* createNote: a new note in front, selected
CreateNote ==
    /\ pc = "ready"
    /\ cacheHist.created < MaxNew
    /\ cacheHist.changes < MaxChanges
    /\ LET newNote == MkNote(NumNotes + cacheHist.created + 1, 0, now, now)
       IN /\ notes' = <<newNote>> \o notes
          /\ selectedNoteId' = newNote.id
    /\ cacheHist' = [cacheHist EXCEPT
                        !.fresh = FALSE, !.created = @ + 1, !.changes = @ + 1,
                        !.owner = @ \cup {<<NumNotes + cacheHist.created + 1,
                                            cacheHist.user>>}]
    /\ pc' = "save"
    /\ UNCHANGED <<storage, pendingNotes, cacheFrame>>

\* onSelectNote={setSelectedNoteId}; followed while changes remain
SelectCached(id) ==
    /\ pc = "ready"
    /\ cacheHist.changes < MaxChanges
    /\ HasId(notes, id)
    /\ id # selectedNoteId
    /\ selectedNoteId' = id
    /\ cacheHist' = [cacheHist EXCEPT !.last = NoLast]
    /\ UNCHANGED <<notes, storage, pendingNotes, pc, cacheFrame>>

\* updateNote({title}) from the editor's title input
EditTitle(title) ==
    /\ pc = "ready"
    /\ cacheHist.changes < MaxChanges
    /\ selectedNoteId # NoId
    /\ HasId(notes, selectedNoteId)
    /\ Find(notes, selectedNoteId).title # title
    /\ notes' = [i \in 1..Len(notes) |->
                    IF notes[i].id = selectedNoteId
                    THEN [notes[i] EXCEPT !.title = title, !.updatedAt = now]
                    ELSE notes[i]]
    /\ cacheHist' = [cacheHist EXCEPT !.fresh = FALSE, !.changes = @ + 1]
    /\ pc' = "save"
    /\ UNCHANGED <<selectedNoteId, storage, pendingNotes, cacheFrame>>

\* handleDateChange: the picked date with the time of day of createdAt;
\* new Date(NaN) and new Date(null) count from 0 in setFullYear
SetFullYear(createdAt, date) ==
    LET t == IF createdAt \in {NaN, Null} THEN 0 ELSE createdAt
    IN TimeClip(date * DayLength + (t % DayLength))

EditDate(date) ==
    /\ pc = "ready"
    /\ cacheHist.changes < MaxChanges
    /\ selectedNoteId # NoId
    /\ HasId(notes, selectedNoteId)
    /\ notes' = [i \in 1..Len(notes) |->
                    IF notes[i].id = selectedNoteId
                    THEN [notes[i] EXCEPT !.createdAt = SetFullYear(@, date),
                                          !.updatedAt = now]
                    ELSE notes[i]]
    /\ cacheHist' = [cacheHist EXCEPT !.fresh = FALSE, !.changes = @ + 1]
    /\ pc' = "save"
    /\ UNCHANGED <<selectedNoteId, storage, pendingNotes, cacheFrame>>

\* toggleFavorite: !note.isFavorite, of undefined too
ToggleTouching(note) ==
    [note EXCEPT !.isFavorite = ~@, !.opt = @ \cup {"isFavorite"}, !.updatedAt = now]

Toggled(note) ==
    [note EXCEPT !.isFavorite = ~@, !.opt = @ \cup {"isFavorite"}]

ToggleFavorite(id) ==
    /\ pc = "ready"
    /\ cacheHist.changes < MaxChanges
    /\ HasId(notes, id)
    /\ notes' = [i \in 1..Len(notes) |->
                    IF notes[i].id = id THEN Toggled(notes[i]) ELSE notes[i]]
    /\ LET l == cacheHist.last
           again == l.op = "toggle" /\ l.id = id /\ l.at = cacheHist.changes
                    /\ l.count = 1
       IN cacheHist' = [cacheHist EXCEPT
              !.fresh = FALSE, !.changes = @ + 1,
              !.last = [op |-> "toggle", id |-> id,
                        count |-> IF again THEN 2 ELSE 1,
                        notes |-> IF again THEN l.notes ELSE notes,
                        sel |-> selectedNoteId, at |-> cacheHist.changes + 1]]
    /\ pc' = "save"
    /\ UNCHANGED <<selectedNoteId, storage, pendingNotes, cacheFrame>>

\* deleteNote, with the answer given to window.confirm
DeleteNote(id, confirmed) ==
    /\ pc = "ready"
    /\ HasId(notes, id)
    /\ confirmed => cacheHist.changes < MaxChanges
    /\ notes' = IF confirmed THEN SelectSeq2(notes, [n \in 1..Len(notes) |-> notes[n].id # id])
                ELSE notes
    /\ selectedNoteId' = IF confirmed THEN SelectionAfterDelete(selectedNoteId, id)
                         ELSE selectedNoteId
    /\ cacheHist' = [cacheHist EXCEPT
          !.fresh = IF confirmed THEN FALSE ELSE @,
          !.changes = IF confirmed THEN @ + 1 ELSE @,
          !.last = [op |-> IF confirmed THEN "delete" ELSE "declined", id |-> id,
                    count |-> 1, notes |-> notes, sel |-> selectedNoteId,
                    at |-> cacheHist.changes + (IF confirmed THEN 1 ELSE 0)]]
    /\ pc' = IF confirmed THEN "save" ELSE pc
    /\ UNCHANGED <<storage, pendingNotes, cacheFrame>>

\* the length of a note's text: text 3 is one of seven characters, every
\* other text that is not empty is a journal entry of twelve or more
TextLength(n) == IF n = 0 THEN 0 ELSE IF n = 3 THEN 7 ELSE 12

MinAnalysisLength == 10
MinContinueLength == 5

\* analyzeJournalEntry: throws unless the text has ten characters
AnalysisAccepts(text) == TextLength(text) >= MinAnalysisLength

\* what analyzeJournalEntry resolves with
AnalysisResult(mood) ==
    [mood |-> mood, moodScore |-> 7, moodColor |-> "#a", tags |-> <<"t">>,
     summary |-> "a", reflectionQuestion |-> "a"]

\* a truthy string member
TruthyText(note, key) == key \in note.opt /\ note[key] # ""

\* handleAIAnalyze up to its await: currentNote and updateNote are those of
\* the render in which the button was clicked
AnalyzeStart ==
    /\ pc = "ready"
    /\ cacheHist.changes < MaxChanges
    /\ Len(ai.requests) < MaxAnalyses
    /\ HasId(notes, selectedNoteId)
    /\ Find(notes, selectedNoteId).content # 0
    /\ ai' = [ai EXCEPT
                !.isAnalyzing = TRUE,
                !.requests = Append(@, [id |-> selectedNoteId,
                                        note |-> Find(notes, selectedNoteId)])]
    /\ UNCHANGED <<notes, selectedNoteId, storage, pendingNotes, pc, cacheHist,
                   appFrame>>

\* updatedHistory of handleAIAnalyze: the history of currentNote and the new
\* entry
UpdatedHistoryWithoutEntry(request, prevNote, entry) == request.note.moodHistory

UpdatedHistory(request, prevNote, entry) ==
    IF "moodHistory" \in request.note.opt
    THEN Append(request.note.moodHistory, entry)
    ELSE <<entry>>

\* the note that handleAIAnalyze's updateNote changes: the updateNote it
\* calls is the one of the render of the click, whose selectedNoteId is the
\* selection of that time
UpdateTargetNowSelected(request, sel) == sel

UpdateTarget(request, sel) == request.id

\* handleAIAnalyze after its await resolved: updateNote({...}) and finally
AnalyzeResolve(k, mood) ==
    /\ pc = "ready"
    /\ k \in 1..Len(ai.requests)
    /\ AnalysisAccepts(ai.requests[k].note.content)
    /\ LET request == ai.requests[k]
           result == AnalysisResult(mood)
           entry == [mood |-> result.mood, score |-> result.moodScore,
                     color |-> result.moodColor, timestamp |-> now]
       IN notes' = [i \in 1..Len(notes) |->
                IF notes[i].id = UpdateTarget(request, selectedNoteId)
                THEN [notes[i] EXCEPT
                        !.mood = result.mood,
                        !.moodHistory = UpdatedHistory(request, notes[i], entry),
                        !.tags = result.tags,
                        !.aiSummary = result.summary,
                        !.aiReflection = result.reflectionQuestion,
                        !.opt = @ \cup {"mood", "moodHistory", "aiSummary",
                                        "aiReflection"},
                        !.updatedAt = now]
                ELSE notes[i]]
    /\ ai' = [ai EXCEPT !.isAnalyzing = FALSE, !.requests = RemoveAt(@, k)]
    /\ cacheHist' = [cacheHist EXCEPT !.fresh = FALSE, !.changes = @ + 1]
    /\ pc' = "save"
    /\ UNCHANGED <<selectedNoteId, storage, pendingNotes, appFrame>>

AnalyzeFailKeepingFlag(k) ==
    /\ pc = "ready"
    /\ k \in 1..Len(ai.requests)
    /\ ai' = [ai EXCEPT !.requests = RemoveAt(@, k), !.alerted = TRUE]
    /\ UNCHANGED <<notes, selectedNoteId, storage, pendingNotes, pc, cacheHist,
                   appFrame>>

\* handleAIAnalyze after its await rejected (the service failed, or the text
\* was too short): catch, with its alert, and finally
AnalyzeFail(k) ==
    /\ pc = "ready"
    /\ k \in 1..Len(ai.requests)
    /\ ai' = [ai EXCEPT !.isAnalyzing = FALSE, !.requests = RemoveAt(@, k),
                        !.alerted = TRUE]
    /\ UNCHANGED <<notes, selectedNoteId, storage, pendingNotes, pc, cacheHist,
                   appFrame>>

\* updateNote({content}) from the editor's textarea
EditContent(text) ==
    /\ pc = "ready"
    /\ cacheHist.changes < MaxChanges
    /\ selectedNoteId # NoId
    /\ HasId(notes, selectedNoteId)
    /\ Find(notes, selectedNoteId).content # text
    /\ notes' = [i \in 1..Len(notes) |->
                    IF notes[i].id = selectedNoteId
                    THEN [notes[i] EXCEPT !.content = text, !.updatedAt = now]
                    ELSE notes[i]]
    /\ cacheHist' = [cacheHist EXCEPT !.fresh = FALSE, !.changes = @ + 1]
    /\ pc' = "save"
    /\ UNCHANGED <<selectedNoteId, storage, pendingNotes, cacheFrame>>

\* handleAIContinue up to its await; the button is disabled while a
\* continuation is being written and for a text of fewer than five characters
ContinueStart ==
    /\ pc = "ready"
    /\ cacheHist.changes < MaxChanges
    /\ ~ai.isContinuing
    /\ HasId(notes, selectedNoteId)
    /\ TextLength(Find(notes, selectedNoteId).content) >= MinContinueLength
    /\ ai' = [ai EXCEPT
                !.isContinuing = TRUE,
                !.continuing = Append(@, [id |-> selectedNoteId,
                                          note |-> Find(notes, selectedNoteId)])]
    /\ UNCHANGED <<notes, selectedNoteId, storage, pendingNotes, pc, cacheHist,
                   appFrame>>

\* the content a note has at the moment, followed by the continuation
ContinuedFromNow(request, prevNote) == prevNote.content + 10

\* currentNote.content + spacer + continuation: the text the continuation
\* of handleAIContinue leaves
Continued(request, prevNote) == request.note.content + 10

\* updateNote({content}) of handleAIContinue: prevNotes.map over the notes
\* of the moment
ContinuedNotesUpserting(request, prevNotes, sel) ==
    IF HasId(prevNotes, UpdateTarget(request, sel))
    THEN [i \in 1..Len(prevNotes) |->
            IF prevNotes[i].id = UpdateTarget(request, sel)
            THEN [prevNotes[i] EXCEPT !.content = Continued(request, prevNotes[i]),
                                      !.updatedAt = now]
            ELSE prevNotes[i]]
    ELSE Append(prevNotes, [request.note EXCEPT
                                !.content = Continued(request, request.note),
                                !.updatedAt = now])

ContinuedNotes(request, prevNotes, sel) ==
    [i \in 1..Len(prevNotes) |->
        IF prevNotes[i].id = UpdateTarget(request, sel)
        THEN [prevNotes[i] EXCEPT !.content = Continued(request, prevNotes[i]),
                                  !.updatedAt = now]
        ELSE prevNotes[i]]

\* handleAIContinue after its await, with a continuation that is not empty
ContinueResolve(k) ==
    /\ pc = "ready"
    /\ k \in 1..Len(ai.continuing)
    /\ notes' = ContinuedNotes(ai.continuing[k], notes, selectedNoteId)
    /\ ai' = [ai EXCEPT !.isContinuing = FALSE, !.continuing = RemoveAt(@, k)]
    /\ cacheHist' = [cacheHist EXCEPT !.fresh = FALSE, !.changes = @ + 1]
    /\ pc' = "save"
    /\ UNCHANGED <<selectedNoteId, storage, pendingNotes, appFrame>>

\* handleAIContinue after its await, with '' (continueWriting returns '' when
\* the service fails or answers nothing): nothing is appended
ContinueEmpty(k) ==
    /\ pc = "ready"
    /\ k \in 1..Len(ai.continuing)
    /\ ai' = [ai EXCEPT !.isContinuing = FALSE, !.continuing = RemoveAt(@, k)]
    /\ UNCHANGED <<notes, selectedNoteId, storage, pendingNotes, pc, cacheHist,
                   appFrame>>

\* AIInsights: the entry shown as the current mood, if any (displayHistory)
HasCurrentMood(note) ==
    /\ TruthyText(note, "mood") \/ TruthyText(note, "aiSummary")
          \/ TruthyText(note, "aiReflection")
    /\ Len(note.moodHistory) > 0 \/ TruthyText(note, "mood")

\* AIInsights.handleColorChange: the history it passes to updateNote
Recoloured(note, newColor) ==
    IF Len(note.moodHistory) = 0
    THEN <<[mood |-> note.mood, score |-> 5, color |-> newColor,
            timestamp |-> note.updatedAt]>>
    ELSE [note.moodHistory EXCEPT ![Len(note.moodHistory)].color = newColor]

ColorChange(newColor) ==
    /\ pc = "ready"
    /\ cacheHist.changes < MaxChanges
    /\ HasId(notes, selectedNoteId)
    /\ LET note == Find(notes, selectedNoteId)
       IN /\ HasCurrentMood(note)
          /\ Len(note.moodHistory) > 0 =>
                note.moodHistory[Len(note.moodHistory)].color # newColor
          /\ notes' = [i \in 1..Len(notes) |->
                IF notes[i].id = selectedNoteId
                THEN [notes[i] EXCEPT
                        !.moodHistory = Recoloured(note, newColor),
                        !.opt = @ \cup {"moodHistory"},
                        !.updatedAt = now]
                ELSE notes[i]]
    /\ cacheHist' = [cacheHist EXCEPT !.fresh = FALSE, !.changes = @ + 1]
    /\ pc' = "save"
    /\ UNCHANGED <<selectedNoteId, storage, pendingNotes, cacheFrame>>

\* the page is closed and opened again, by the same user or by another one:
\* the component mounts anew
Reload(user) ==
    /\ pc = "ready"
    /\ notes' = <<>>
    /\ selectedNoteId' = NoId
    /\ pendingNotes' = NoPending
    /\ pc' = "load"
    /\ cacheHist' = [cacheHist EXCEPT !.atMount = storage[STORAGE_KEY],
                                      !.fresh = TRUE,
                                      !.legacyRead = FALSE,
                                      !.last = NoLast,
                                      !.user = user,
                                      !.expect = <<notes>>]
    /\ ai' = NoAi
    /\ UNCHANGED <<storage, appFrame>>

NextCache ==
    \/ LoadEffect
    \/ SaveEffect
    \/ Render
    \/ CreateNote
    \/ \E id \in 1..(NumNotes + MaxNew) : SelectCached(id)
    \/ \E title \in Titles : EditTitle(title)
    \/ \E date \in Dates : EditDate(date)
    \/ \E id \in 1..(NumNotes + MaxNew) : ToggleFavorite(id)
    \/ \E id \in 1..(NumNotes + MaxNew), confirmed \in BOOLEAN : DeleteNote(id, confirmed)
    \/ \E user \in Users : Reload(user)

SpecCache == InitCache /\ [][NextCache]_vars

(***************************************************************************)
(* sortedFilteredNotes: the notes shown in the sidebar.                    *)
(***************************************************************************)
\* texts a searched text can begin or end with
Affixes == {"", "a", "t", "1", "2"}

\* String.prototype.toLowerCase; "A" is the one text here with a capital
LowerCase(str) == IF str = "A" THEN "a" ELSE str

\* String.prototype.includes
Includes(text, term) ==
    \/ term = ""
    \/ \E pre \in Affixes, post \in Affixes : pre \o term \o post = text

MatchesSearch(note, searchTerm) ==
    \/ Includes(LowerCase(note.title), LowerCase(searchTerm))
    \/ Includes(LowerCase(ContentText(note.content)), LowerCase(searchTerm))
    \/ \E i \in 1..Len(note.tags) :
          Includes(LowerCase(note.tags[i]), LowerCase(searchTerm))

\* moodFilter ? note.mood === moodFilter : true  (null and '' are falsy)
MatchesAnyMood(note, moodFilter) == TRUE

MatchesMood(note, moodFilter) ==
    IF moodFilter # "" THEN "mood" \in note.opt /\ note.mood = moodFilter ELSE TRUE

\* showFavorites ? note.isFavorite : true
MatchesFavorite(note, showFavorites) ==
    IF showFavorites THEN note.isFavorite ELSE TRUE

\* String.prototype.localeCompare on the titles of the model
TitleOrder == <<"", "a">>
LocaleCompare(x, y) ==
    LET Rank(str) == CHOOSE i \in 1..Len(TitleOrder) : TitleOrder[i] = str
    IN IF Rank(x) < Rank(y) THEN 0 - 1 ELSE IF Rank(x) > Rank(y) THEN 1 ELSE 0

\* the comparator of filtered.sort
ComparisonIgnoringOrder(a, b, sortBy, sortOrder) ==
    CASE sortBy = "title" -> LocaleCompare(a.title, b.title)
      [] sortBy = "createdAt" -> a.createdAt - b.createdAt
      [] sortBy = "updatedAt" -> a.updatedAt - b.updatedAt

Comparison(a, b, sortBy, sortOrder) ==
    LET comparison ==
            CASE sortBy = "title" -> LocaleCompare(a.title, b.title)
              [] sortBy = "createdAt" -> a.createdAt - b.createdAt
              [] sortBy = "updatedAt" -> a.updatedAt - b.updatedAt
    IN IF sortOrder = "asc" THEN comparison ELSE 0 - comparison

\* Array.prototype.sort: stable, by the comparator
Sort(seq, sortBy, sortOrder) ==
    LET Insert(sorted, x) ==
            LET k == Cardinality({i \in 1..Len(sorted) :
                        \E j \in i..Len(sorted) :
                            Comparison(sorted[j], x, sortBy, sortOrder) <= 0})
            IN SubSeq(sorted, 1, k) \o <<x>> \o SubSeq(sorted, k + 1, Len(sorted))
        F[i \in 0..Len(seq)] == IF i = 0 THEN <<>> ELSE Insert(F[i - 1], seq[i])
    IN F[Len(seq)]

\* the settings of the sidebar
ViewSettings ==
    [searchTerm : {"", "a", "A", "t", "2"}, moodFilter : Moods,
     showFavorites : BOOLEAN, sortBy : {"title", "createdAt", "updatedAt"},
     sortOrder : {"asc", "desc"}]

sortedFilteredNotes(coll, v) ==
    LET filtered == SelectSeq(coll, LAMBDA note :
                        /\ MatchesSearch(note, v.searchTerm)
                        /\ MatchesMood(note, v.moodFilter)
                        /\ MatchesFavorite(note, v.showFavorites))
    IN Sort(filtered, v.sortBy, v.sortOrder)

(***************************************************************************)
(* The mounted App with two notes loaded from the cache: the handlers of   *)
(* the sidebar, the editor and the insights panel, and the clock.          *)
(***************************************************************************)
InitApp ==
    /\ notes = <<OlderNote, CachedNote>>
    /\ selectedNoteId = NoId
    /\ now = 1
    /\ savingStatus = "idle"
    /\ saveTimer = NoTimer
    /\ inflight = <<>>
    /\ removing = <<>>
    /\ displayTimers = <<>>
    /\ remote = <<>>
    /\ snapQueue = <<>>
    /\ unloadInstalled = FALSE
    /\ hist = NoHist
    /\ mrg = MergeIdle
    /\ storage = [key \in {STORAGE_KEY, LEGACY_STORAGE_KEY} |->
                    IF key = STORAGE_KEY THEN JsonStringify(notes) ELSE NoItem]
    /\ pendingNotes = NoPending
    /\ pc = "ready"
    /\ cacheHist = [atMount |-> storage[STORAGE_KEY], fresh |-> TRUE,
                    expect |-> <<>>, created |-> 0, changes |-> 0,
                    legacyRead |-> FALSE, legacy0 |-> NoItem, last |-> NoLast,
                    user |-> "A", owner |-> {}]
    /\ ai = NoAi
    /\ sidebar = DefaultView

\* Date.now() moves on, once the present value has been used as a stamp
AppTick ==
    /\ pc = "ready"
    /\ \E i \in 1..Len(notes) : notes[i].updatedAt = now
    /\ cacheHist.changes < MaxChanges
    /\ now' = now + 1
    /\ UNCHANGED <<notes, selectedNoteId, savingStatus, saveTimer, inflight,
                   displayTimers, remote, snapQueue, unloadInstalled, hist, mrg,
                   removing, cacheVars>>

NextApp ==
    \/ SaveEffect
    \/ \E id \in NoteIds : SelectCached(id)
    \/ \E title \in Titles : EditTitle(title)
    \/ AnalyzeStart
    \/ \E k \in 1..MaxAnalyses, mood \in Moods \ {""} : AnalyzeResolve(k, mood)
    \/ \E k \in 1..MaxAnalyses : AnalyzeFail(k)
    \/ \E newColor \in Colors : ColorChange(newColor)
    \/ AppTick

SpecApp == InitApp /\ [][NextApp]_vars

\* the texts typed into the editor: a short one
EditTexts == {3}

\* the mounted App with requests to the AI service in flight, while the user
\* goes on editing, selecting and deleting
NextAi ==
    \/ SaveEffect
    \/ \E id \in NoteIds : SelectCached(id)
    \/ \E text \in EditTexts : EditContent(text)
    \/ AnalyzeStart
    \/ \E k \in 1..MaxAnalyses, mood \in Moods \ {""} : AnalyzeResolve(k, mood)
    \/ \E k \in 1..MaxAnalyses : AnalyzeFail(k)
    \/ ContinueStart
    \/ ContinueResolve(1)
    \/ ContinueEmpty(1)
    \/ \E newColor \in Colors : ColorChange(newColor)
    \/ \E id \in NoteIds : DeleteNote(id, TRUE)

SpecAi == InitApp /\ [][NextAi]_vars

(***************************************************************************)
(* The sidebar's view of the notes: the mounted App with any collection of *)
(* notes of the sample below, and the handlers that change the settings.   *)
(***************************************************************************)
ViewStamps == {0, 1}

\* note id of the sample: the cached note, the older one, or a new one with
\* a mood; its stamps vary
ViewNote(id, createdAt, updatedAt) ==
    [(IF id = 1 THEN CachedNote
      ELSE IF id = 2 THEN OlderNote
      ELSE [MkNote(id, 0, 0, 0) EXCEPT !.mood = "sad", !.opt = @ \cup {"mood"}])
        EXCEPT !.createdAt = createdAt, !.updatedAt = updatedAt]

ViewNotes == {ViewNote(id, c, u) : id \in NoteIds, c \in ViewStamps, u \in ViewStamps}

ViewCollections ==
    UNION {{coll \in [1..k -> ViewNotes] :
                \A i \in 1..k, j \in 1..k : i # j => coll[i].id # coll[j].id} :
           k \in 0..NumNotes}

InitView ==
    /\ notes \in ViewCollections
    /\ selectedNoteId = NoId
    /\ now = 1
    /\ savingStatus = "idle"
    /\ saveTimer = NoTimer
    /\ inflight = <<>>
    /\ removing = <<>>
    /\ displayTimers = <<>>
    /\ remote = <<>>
    /\ snapQueue = <<>>
    /\ unloadInstalled = FALSE
    /\ hist = NoHist
    /\ mrg = MergeIdle
    /\ storage = [key \in {STORAGE_KEY, LEGACY_STORAGE_KEY} |->
                    IF key = STORAGE_KEY THEN JsonStringify(notes) ELSE NoItem]
    /\ pendingNotes = NoPending
    /\ pc = "ready"
    /\ cacheHist = [atMount |-> storage[STORAGE_KEY], fresh |-> TRUE,
                    expect |-> <<>>, created |-> 0, changes |-> 0,
                    legacyRead |-> FALSE, legacy0 |-> NoItem, last |-> NoLast,
                    user |-> "A", owner |-> {}]
    /\ ai = NoAi
    /\ sidebar = DefaultView

viewFrame == <<notes, selectedNoteId, storage, pendingNotes, pc, cacheHist, ai, now,
               savingStatus, saveTimer, inflight, displayTimers, remote, snapQueue,
               unloadInstalled, hist, mrg, removing>>

\* onSearchChange={setSearchTerm}
SetSearchTerm(term) ==
    /\ pc = "ready"
    /\ term # sidebar.searchTerm
    /\ sidebar' = [sidebar EXCEPT !.searchTerm = term]
    /\ UNCHANGED viewFrame

\* onMoodFilterChange={setMoodFilter}
SetMoodFilter(mood) ==
    /\ pc = "ready"
    /\ mood # sidebar.moodFilter
    /\ sidebar' = [sidebar EXCEPT !.moodFilter = mood]
    /\ UNCHANGED viewFrame

\* onToggleFavoritesFilter={() => setShowFavorites(!showFavorites)}
ToggleFavoritesFilter ==
    /\ pc = "ready"
    /\ sidebar' = [sidebar EXCEPT !.showFavorites = ~@]
    /\ UNCHANGED viewFrame

\* onSortByChange={setSortBy}
SetSortBy(key) ==
    /\ pc = "ready"
    /\ key # sidebar.sortBy
    /\ sidebar' = [sidebar EXCEPT !.sortBy = key]
    /\ UNCHANGED viewFrame

\* onSortOrderChange={setSortOrder}
SetSortOrder(order) ==
    /\ pc = "ready"
    /\ order # sidebar.sortOrder
    /\ sidebar' = [sidebar EXCEPT !.sortOrder = order]
    /\ UNCHANGED viewFrame

NextView ==
    \/ \E term \in {"", "a", "A", "t", "2"} : SetSearchTerm(term)
    \/ \E mood \in Moods : SetMoodFilter(mood)
    \/ ToggleFavoritesFilter
    \/ \E key \in {"title", "createdAt", "updatedAt"} : SetSortBy(key)
    \/ \E order \in {"asc", "desc"} : SetSortOrder(order)

SpecView == InitView /\ [][NextView]_vars

\* timers fire when due and time passes: the event loop's guarantee
Fairness ==
    /\ WF_vars(Tick)
    /\ WF_vars(SaveTimerFire)
    /\ WF_vars(DisplayTimerFire)

SpecLive == InitPipe /\ [][Next]_vars /\ Fairness

(***************************************************************************)
(* Properties.                                                             *)
(***************************************************************************)

\* C1: after one snapshot is merged, every snapshot id has exactly one merged
\* copy: the local copy when one exists with a strictly greater updatedAt,
\* the snapshot copy otherwise (no local copy, or snapshot at least as new).
C1_MergedCopy ==
    mrg.pc = "merged" =>
        \A i \in 1..Len(mrg.snap) :
            LET f == mrg.snap[i]
                localNewer == /\ HasId(mrg.local, f.id)
                              /\ Find(mrg.local, f.id).updatedAt > f.updatedAt
            IN /\ Cardinality({j \in 1..Len(mrg.out) : mrg.out[j].id = f.id}) = 1
               /\ Find(mrg.out, f.id) = IF localNewer THEN Find(mrg.local, f.id) ELSE f

C1_Witness ==
    /\ mrg.pc = "merged"
    /\ \E a \in NoteIds, b \in NoteIds :
          /\ a # b
          /\ HasId(mrg.local, a) /\ HasId(mrg.snap, a)
          /\ HasId(mrg.local, b) /\ HasId(mrg.snap, b)
          /\ Find(mrg.local, a).updatedAt = Find(mrg.snap, a).updatedAt
          /\ Find(mrg.out, a).content = 2
          /\ Find(mrg.local, b).updatedAt > Find(mrg.snap, b).updatedAt
          /\ Find(mrg.out, b).content = 1

\* C4: after one snapshot is merged, no id held only locally is left: the
\* ids of the collection are ids of the snapshot.
C4_LocalOnlyDropped ==
    mrg.pc = "merged" =>
        /\ Ids(mrg.out) \subseteq Ids(mrg.snap)
        /\ \A id \in Ids(mrg.local) \ Ids(mrg.snap) : ~HasId(mrg.out, id)

C4_Witness ==
    /\ mrg.pc = "merged"
    /\ mrg.snap # <<>>
    /\ Ids(mrg.local) \ Ids(mrg.snap) # {}
    /\ Ids(mrg.local) \cap Ids(mrg.snap) # {}

\* C2: each burst of edits yields exactly one remote write, sent when the
\* debounce timer fires, and the write carries the note value of the last
\* edit of the burst; while the burst is open no write of it has been sent.
C2_OneWritePerBurst ==
    /\ [](/\ hist.attempts + (IF saveTimer.armed THEN 1 ELSE 0) = hist.bursts
          /\ saveTimer.armed => saveTimer.note = hist.lastEdit)
    /\ [][hist.attempts' # hist.attempts =>
             /\ hist.attempts' = hist.attempts + 1
             /\ hist.edits' = hist.edits
             /\ inflight' = Append(inflight, hist.lastEdit)]_vars

C2_Witness ==
    /\ hist.edits = 2
    /\ hist.bursts = 1
    /\ hist.attempts = 1
    /\ \E id \in NoteIds :
          /\ hist.lastText = [i \in NoteIds |-> IF i = id THEN 2 ELSE 0]
          /\ inflight = <<hist.lastEdit>>
          /\ hist.lastEdit.id = id
          /\ hist.lastEdit.content = 2

\* C3: in every state, every note that was edited locally (and that the user
\* did not delete) is in memory with the text of its most recent local edit,
\* whatever echoes of the client's earlier writes have been merged.
C3_EchoNeverOverwrites ==
    \A id \in NoteIds :
        hist.lastText[id] # 0 /\ id \notin hist.deleted =>
            /\ HasId(notes, id)
            /\ Find(notes, id).content = hist.lastText[id]

C3_Witness ==
    /\ snapQueue = <<>>
    /\ \E id \in NoteIds :
          /\ remote[id].content # 0
          /\ remote[id].content < hist.lastText[id]
          /\ Find(notes, id).content = hist.lastText[id]

\* C15: a note whose remote delete was rejected is not in the in-memory
\* collection, in that state and in every later one.
C15_DeletedStaysAbsent ==
    \A id \in hist.removeFailed : ~HasId(notes, id)

\* C16: the notes in memory that were made by createNote were made by the
\* user now using the page: none is of a previous user.
C16_CacheScopedPerUser ==
    \A i \in 1..Len(notes) :
        \A o \in cacheHist.owner : o[1] = notes[i].id => o[2] = cacheHist.user

\* an entry of the mood history but for its colour
SameEntry(a, b) == a.mood = b.mood /\ a.score = b.score /\ a.timestamp = b.timestamp

\* history h2 holds the entries of h, in order, at its start
Extends(h, h2) ==
    /\ Len(h2) >= Len(h)
    /\ \A k \in 1..Len(h) : SameEntry(h[k], h2[k])

\* C17: in every step the mood history of every note keeps its entries
\* (mood, score, timestamp) in order and does not get shorter, and a step in
\* which an analysis result is applied makes the history of its note longer
\* by exactly one entry.
C17_MoodHistoryAppendOnly ==
    [][/\ \A i \in 1..Len(notes), j \in 1..Len(notes') :
            notes[i].id = notes'[j].id =>
                Extends(notes[i].moodHistory, notes'[j].moodHistory)
       /\ \A k \in 1..Len(ai.requests) :
            (ai'.requests = RemoveAt(ai.requests, k)
                /\ cacheHist'.changes # cacheHist.changes
                /\ HasId(notes, ai.requests[k].id)) =>
                Len(Find(notes', ai.requests[k].id).moodHistory)
                    = Len(Find(notes, ai.requests[k].id).moodHistory) + 1]_vars

\* the step changes the note of the given id alone, and stamps it with the
\* current time
UpdatesOnly(id) ==
    /\ Len(notes') = Len(notes)
    /\ \A i \in 1..Len(notes) :
          IF notes[i].id = id
          THEN notes'[i].id = id /\ notes'[i].updatedAt = now
          ELSE notes'[i] = notes[i]

\* no note's updatedAt gets smaller in the step
StampsGrow ==
    \A i \in 1..Len(notes), j \in 1..Len(notes') :
        notes[i].id = notes'[j].id => notes'[j].updatedAt >= notes[i].updatedAt

\* C18 as stated: every step that changes the notes changes the selected
\* note alone and sets its updatedAt to the current time; no updatedAt gets
\* smaller; with no note selected the notes do not change.
C18_UpdateSelectedNote ==
    [][notes' # notes =>
          /\ selectedNoteId # NoId
          /\ UpdatesOnly(selectedNoteId)
          /\ StampsGrow]_vars

\* C18, amended: every step that changes the notes changes one note alone
\* and sets its updatedAt to the current time: the selected note, or, when
\* the step applies the result of an analysis, the note that was selected
\* when the analysis was requested; no updatedAt gets smaller.
C18_UpdateNoteOfTheRequest ==
    [][notes' # notes =>
          /\ \/ /\ ai' = ai
                /\ selectedNoteId # NoId
                /\ UpdatesOnly(selectedNoteId)
             \/ \E k \in 1..Len(ai.requests) :
                   /\ ai'.requests = RemoveAt(ai.requests, k)
                   /\ UpdatesOnly(ai.requests[k].id)
          /\ StampsGrow]_vars

\* the result of an analysis has just been applied to a note that is not the
\* selected one, after the clock moved on
C18_Witness ==
    /\ pc = "save"
    /\ now > 1
    /\ \E i \in 1..Len(notes) :
          /\ "aiSummary" \in notes[i].opt
          /\ notes[i].id # selectedNoteId
          /\ notes[i].updatedAt = now

\* the predicates of the claim, for one note under the settings v
Satisfies(note, v) ==
    /\ \/ Includes(LowerCase(note.title), LowerCase(v.searchTerm))
       \/ Includes(LowerCase(ContentText(note.content)), LowerCase(v.searchTerm))
       \/ \E t \in {note.tags[i] : i \in 1..Len(note.tags)} :
             Includes(LowerCase(t), LowerCase(v.searchTerm))
    /\ v.moodFilter # "" => ("mood" \in note.opt /\ note.mood = v.moodFilter)
    /\ v.showFavorites => note.isFavorite

\* a comes no later than b by the key, ascending
KeyAtMost(a, b, sortBy) ==
    CASE sortBy = "title" -> a.title = "" \/ b.title = a.title \/ b.title # ""
      [] sortBy = "createdAt" -> a.createdAt <= b.createdAt
      [] sortBy = "updatedAt" -> a.updatedAt <= b.updatedAt

ViewIsProjection ==
    LET view == sortedFilteredNotes(notes, sidebar)
        shown == {i \in 1..Len(notes) : Satisfies(notes[i], sidebar)}
    IN /\ Len(view) = Cardinality(shown)
       /\ {view[i] : i \in 1..Len(view)} = {notes[i] : i \in shown}
       /\ \A i \in 1..Len(view), j \in 1..Len(view) :
             i < j => IF sidebar.sortOrder = "asc"
                      THEN KeyAtMost(view[i], view[j], sidebar.sortBy)
                      ELSE KeyAtMost(view[j], view[i], sidebar.sortBy)
       /\ \A i \in 1..Len(notes), j \in 1..Len(notes) :
             Comparison(notes[i], notes[j], sidebar.sortBy, "desc")
                = 0 - Comparison(notes[i], notes[j], sidebar.sortBy, "asc")

C20_SavingWhilePending ==
    saveTimer.armed => savingStatus = "saving"

\* C5: the status changes only along idle -> saving, saving -> saved,
\* saved -> idle, saving -> error, and into saving on a new edit.
C5_StatusTransitions ==
    [][savingStatus' # savingStatus =>
          \/ savingStatus' = "saving" /\ hist.edits' # hist.edits
          \/ savingStatus = "idle" /\ savingStatus' = "saving"
          \/ savingStatus = "saving" /\ savingStatus' = "saved"
          \/ savingStatus = "saved" /\ savingStatus' = "idle"
          \/ savingStatus = "saving" /\ savingStatus' = "error"]_vars

C7_SavedThenIdle ==
    /\ [][(\E i \in 1..Len(inflight) : WriteOk(i)) => savingStatus' = "saved"]_vars
    /\ [][savingStatus = "saved" /\ savingStatus' = "idle" =>
             /\ notes' = notes
             /\ remote' = remote
             /\ inflight' = inflight
             /\ saveTimer' = saveTimer]_vars
    /\ (savingStatus = "saved") ~> (savingStatus = "idle")

C7_Witness ==
    /\ savingStatus = "idle"
    /\ displayTimers = <<>>
    /\ inflight = <<>>
    /\ ~saveTimer.armed
    /\ \E id \in NoteIds : remote[id].content # 0

\* C8: the unload interception is installed exactly in the busy states:
\* status saving, or a scheduled write pending.
C8_UnloadIffBusy ==
    unloadInstalled <=> (savingStatus = "saving" \/ saveTimer.armed)

C8_Witness ==
    /\ ~unloadInstalled
    /\ savingStatus = "saved"
    /\ hist.fired = 2
    /\ hist.edits = 2

\* C9: when the page is opened again, the notes in memory once the effects
\* have run are the notes that were in memory, and saved, when it was closed:
\* same notes, same order, same fields.
C9_CacheRoundTrip ==
    (pc = "ready" /\ cacheHist.fresh /\ cacheHist.expect # <<>>) =>
        /\ notes = cacheHist.expect[1]
        /\ JsonParse(storage[STORAGE_KEY]).value = cacheHist.expect[1]

C9_Witness ==
    /\ pc = "ready"
    /\ cacheHist.fresh
    /\ cacheHist.expect # <<>>
    /\ Len(notes) = 3
    /\ \E i \in 1..3 : notes[i].title = "a" /\ notes[i].isFavorite
    /\ \E i \in 1..3 : "isFavorite" \notin notes[i].opt
    /\ \E i \in 1..3 : notes[i].id > NumNotes /\ ~notes[i].isFavorite

\* a text under the current key that JSON.parse rejects
Corrupt(item) == item.kind \in {"empty", "garbage"}

\* C10 as stated: when the text under the current key fails to parse, the
\* notes in memory after the load are empty.
C10_CorruptGivesEmpty ==
    (pc = "ready" /\ cacheHist.fresh /\ Corrupt(cacheHist.atMount)) => notes = <<>>

\* C10 amended: when the text under the current key fails to parse, the load
\* does not crash, and the notes in memory after it are the notes of the
\* legacy entry when that entry parses, and empty otherwise.
C10_CorruptFallsBackToLegacy ==
    /\ pc \in {"off", "load", "save", "render", "ready"}
    /\ (pc = "ready" /\ cacheHist.fresh /\ Corrupt(cacheHist.atMount)) =>
          notes = IF storage[LEGACY_STORAGE_KEY].kind = "array"
                  THEN JsonParse(storage[LEGACY_STORAGE_KEY]).value
                  ELSE <<>>

C10_Witness ==
    /\ pc = "ready"
    /\ cacheHist.fresh
    /\ cacheHist.atMount = Garbage
    /\ storage[LEGACY_STORAGE_KEY].kind = "array"
    /\ Len(notes) = 2

\* C11 as stated: the load effect reads the legacy key only when no text is
\* stored under the current key (none, or an empty one); what it reads there
\* becomes the notes in memory; the item under the legacy key is never
\* written or deleted.
C11_LegacyOnlyWhenNoCache ==
    /\ (pc # "load" /\ cacheHist.legacyRead) =>
          cacheHist.atMount \in {NoItem, EmptyText}
    /\ (pc = "ready" /\ cacheHist.fresh /\ cacheHist.legacyRead
            /\ JsonParse(storage[LEGACY_STORAGE_KEY]).ok) =>
          notes = JsonParse(storage[LEGACY_STORAGE_KEY]).value
    /\ storage[LEGACY_STORAGE_KEY] = cacheHist.legacy0

\* C11 amended: the load effect reads the legacy key exactly when the current
\* key gives no notes: nothing stored under it, an empty text, or a text that
\* fails to parse; what it reads there, when it parses, becomes the notes in
\* memory; the item under the legacy key is never written or deleted.
C11_LegacyWhenNoUsableCache ==
    /\ pc # "load" =>
          (cacheHist.legacyRead <=> cacheHist.atMount \in {NoItem, EmptyText, Garbage})
    /\ (pc = "ready" /\ cacheHist.fresh /\ cacheHist.legacyRead
            /\ JsonParse(storage[LEGACY_STORAGE_KEY]).ok) =>
          notes = JsonParse(storage[LEGACY_STORAGE_KEY]).value
    /\ storage[LEGACY_STORAGE_KEY] = cacheHist.legacy0

C11_Witness ==
    /\ pc = "ready"
    /\ cacheHist.fresh
    /\ cacheHist.legacyRead
    /\ cacheHist.atMount = NoItem
    /\ Len(notes) = 2
    /\ storage[STORAGE_KEY] = storage[LEGACY_STORAGE_KEY]
    /\ storage[LEGACY_STORAGE_KEY] = cacheHist.legacy0

\* the isFavorite member as the program reads it
FavoriteValue(note) ==
    IF "isFavorite" \in note.opt THEN BoolText(note.isFavorite) ELSE "undefined"

\* equal in every member but isFavorite
SameButFavorite(a, b) ==
    [a EXCEPT !.isFavorite = FALSE, !.opt = @ \ {"isFavorite"}]
        = [b EXCEPT !.isFavorite = FALSE, !.opt = @ \ {"isFavorite"}]

\* the last click was on the star of a note and nothing changed since
JustToggled(count) ==
    /\ cacheHist.last.op = "toggle"
    /\ cacheHist.last.count = count
    /\ cacheHist.last.at = cacheHist.changes

\* C12 as stated: toggleFavorite changes no member of the note but
\* isFavorite (updatedAt included) and no other note, and after two toggles
\* of one note its isFavorite is the original value.
C12_ToggleTwiceRestores ==
    (JustToggled(1) \/ JustToggled(2)) =>
        LET before == cacheHist.last.notes
        IN /\ Len(notes) = Len(before)
           /\ \A i \in 1..Len(notes) :
                 IF before[i].id = cacheHist.last.id
                 THEN /\ SameButFavorite(notes[i], before[i])
                      /\ JustToggled(1) => notes[i].isFavorite = ~before[i].isFavorite
                      /\ JustToggled(2) =>
                            FavoriteValue(notes[i]) = FavoriteValue(before[i])
                 ELSE notes[i] = before[i]

\* C12 amended: toggleFavorite changes no member of the note but isFavorite
\* (updatedAt included) and no other note, and after two toggles of one note
\* its isFavorite is the original value, or false where the note had no
\* isFavorite member.
C12_ToggleTwiceRestoresTruth ==
    (JustToggled(1) \/ JustToggled(2)) =>
        LET before == cacheHist.last.notes
        IN /\ Len(notes) = Len(before)
           /\ \A i \in 1..Len(notes) :
                 IF before[i].id = cacheHist.last.id
                 THEN /\ SameButFavorite(notes[i], before[i])
                      /\ JustToggled(1) => notes[i].isFavorite = ~before[i].isFavorite
                      /\ JustToggled(2) =>
                            FavoriteValue(notes[i]) =
                                IF FavoriteValue(before[i]) = "undefined"
                                THEN "false" ELSE FavoriteValue(before[i])
                 ELSE notes[i] = before[i]

C12_Witness ==
    /\ JustToggled(2)
    /\ Len(notes) = 2
    /\ \E i \in 1..2 : /\ notes[i].id = cacheHist.last.id
                        /\ FavoriteValue(cacheHist.last.notes[i]) = "undefined"
                        /\ FavoriteValue(notes[i]) = "false"
                        /\ notes[i].updatedAt < now

\* the last click was on the bin of a note, answered so, and nothing changed
\* since
JustAnswered(op) ==
    /\ cacheHist.last.op = op
    /\ cacheHist.last.at = cacheHist.changes

\* C13: a confirmed deleteNote(id) leaves the other notes, in their order,
\* and none with that id; the selection is empty if id was selected and
\* unchanged otherwise.  A declined confirmation changes nothing.
C13_DeleteNote ==
    LET l == cacheHist.last
    IN /\ JustAnswered("delete") =>
             /\ ~HasId(notes, l.id)
             /\ notes = SelectSeq(l.notes, LAMBDA n : n.id # l.id)
             /\ l.sel = l.id => selectedNoteId = NoId
             /\ l.sel # l.id => selectedNoteId = l.sel
       /\ JustAnswered("declined") =>
             /\ notes = l.notes
             /\ selectedNoteId = l.sel
             /\ pc = "ready"

C13_Witness ==
    /\ JustAnswered("delete")
    /\ cacheHist.last.sel = cacheHist.last.id
    /\ Len(cacheHist.last.notes) = 2
    /\ Len(notes) = 1
    /\ selectedNoteId = NoId

\* the mood a note shows: of its most recent mood-history entry, or its mood
\* member where it has no history
ShownMood(note) ==
    IF Len(note.moodHistory) > 0 THEN note.moodHistory[Len(note.moodHistory)].mood
    ELSE IF "mood" \in note.opt THEN note.mood
    ELSE "undefined"

\* C14: with mood filter M and no other filter, the notes shown are exactly
\* the notes whose most recent mood-history entry has mood M, or, without a
\* history, whose mood member is M.
C14_MoodFilter ==
    \A v \in [searchTerm : {""}, moodFilter : Moods \ {""}, showFavorites : {FALSE},
               sortBy : {"updatedAt"}, sortOrder : {"asc", "desc"}] :
        LET shown == sortedFilteredNotes(notes, v)
            withMood == {j \in 1..Len(notes) : ShownMood(notes[j]) = v.moodFilter}
        IN /\ {shown[i] : i \in 1..Len(shown)} = {notes[j] : j \in withMood}
           /\ Len(shown) = Cardinality(withMood)

\* a note analysed twice shows its second mood, another has a mood and no
\* history
C14_Witness ==
    /\ Len(notes) = 2
    /\ \E i, j \in 1..2 :
          /\ Len(notes[i].moodHistory) = 2
          /\ notes[i].moodHistory[1].mood = "calm"
          /\ ShownMood(notes[i]) = "sad"
          /\ Len(notes[j].moodHistory) = 0
          /\ ShownMood(notes[j]) = "calm"

\* C21: the scheduled writes that are neither cancelled nor fired (one is
\* scheduled by every edit, one is cancelled by every edit that finds a timer
\* armed) are at most one, and there is one exactly when the timer is armed;
\* the writes sent and not settled are the attempts that have not settled.
C21_OneScheduledWrite ==
    LET scheduled == hist.edits
        cancelled == hist.edits - hist.bursts
        pending == scheduled - cancelled - hist.fired
    IN /\ pending \in {0, 1}
       /\ saveTimer.armed <=> pending = 1
       /\ Len(inflight) <= hist.attempts

\* two writes sent are outstanding together
C21_Witness ==
    /\ Len(inflight) = 2
    /\ inflight[1] # inflight[2]
    /\ ~saveTimer.armed

\* C22: a step that changes the selection leaves the scheduled write as it
\* is (armed, same note value, same time left); the step in which the timer
\* fires sends the note value the timer holds, which is the value the last
\* edit produced, whatever note is selected then.
C22_SelectionKeepsScheduledWrite ==
    /\ [][selectedNoteId' # selectedNoteId => saveTimer' = saveTimer]_vars
    /\ [][hist.fired' # hist.fired =>
             /\ inflight' = Append(inflight, saveTimer.note)
             /\ saveTimer.note = hist.lastEdit
             /\ selectedNoteId' = selectedNoteId]_vars

\* the write of a note was sent while another note was selected
C22_Witness ==
    /\ selectedNoteId # NoId
    /\ Len(inflight) = 1
    /\ inflight[1] = hist.lastEdit
    /\ inflight[1].id # selectedNoteId
    /\ inflight[1].content # 0

\* an analysis request has settled in the step
AnalysisSettles == Len(ai'.requests) < Len(ai.requests)

\* C23: a step in which an analysis fails leaves the notes as they are; a
\* request for a text of fewer than ten characters can only fail (its step
\* leaves the notes as they are and raises the alert); after the step in
\* which a request settles, by success or by failure, isAnalyzing is false.
C23_FailedAnalysisChangesNothing ==
    /\ [][(\E k \in 1..Len(ai.requests) : AnalyzeFail(k)) =>
             notes' = notes /\ ~ai'.isAnalyzing]_vars
    /\ [][(/\ AnalysisSettles
           /\ \A k \in 1..Len(ai.requests) :
                 ai'.requests = RemoveAt(ai.requests, k) =>
                     ~AnalysisAccepts(ai.requests[k].note.content)) =>
             notes' = notes /\ ai'.alerted]_vars
    /\ [][AnalysisSettles => ~ai'.isAnalyzing]_vars

\* the analysis of a note with a short text has failed: the alert was shown,
\* no request is left and the note has no result
C23_Witness ==
    /\ pc = "ready"
    /\ ai.alerted
    /\ ~ai.isAnalyzing
    /\ ai.requests = <<>>
    /\ cacheHist.changes = 1
    /\ HasId(notes, selectedNoteId)
    /\ Find(notes, selectedNoteId).content = 3
    /\ "aiSummary" \notin Find(notes, selectedNoteId).opt

\* nothing is scheduled and nothing is on its way
Quiet == ~saveTimer.armed /\ inflight = <<>>

\* C24: when no remote write was rejected and no write is scheduled or on
\* its way any more, the value of the latest local edit of every note (that
\* the user did not delete) has reached the remote store.
C24_NoEditLost ==
    (Quiet /\ ~hist.failed) =>
        \A id \in NoteIds :
            (hist.lastText[id] # 0 /\ id \notin hist.deleted) => hist.lastWritten[id]

\* the notes a load effect would put in memory from a store
CachedIn(store) == Ids(Loaded(store).value)

\* the store as it was when the page opened: the legacy entry is never written
StoreAtMount == [storage EXCEPT ![STORAGE_KEY] = cacheHist.atMount]

\* C25: from mount onward the cache holds every note it held (under the
\* current key, or in the legacy entry) when the page opened, until the user
\* deletes the note; after a change by the user the notes not deleted are
\* those in memory.
C25_StartKeepsCachedNotes ==
    \A id \in CachedIn(StoreAtMount) :
        (cacheHist.fresh \/ HasId(notes, id)) => id \in CachedIn(storage)

\* history h2 starts with the entries of h, unchanged
StartsWith(h2, h) == Len(h2) >= Len(h) /\ SubSeq(h2, 1, Len(h)) = h

\* C26: a step in which a continuation is appended leaves in its note the
\* content the note had just before the step followed by the continuation,
\* and a step in which an analysis result is applied keeps the entries the
\* mood history of its note had just before the step.
C26_AiKeepsConcurrentEdits ==
    [][/\ \A k \in 1..Len(ai.continuing) :
            (ai'.continuing = RemoveAt(ai.continuing, k)
                /\ cacheHist'.changes # cacheHist.changes
                /\ HasId(notes, ai.continuing[k].id)) =>
                Find(notes', ai.continuing[k].id).content
                    = ContinuedFromNow(ai.continuing[k],
                                       Find(notes, ai.continuing[k].id))
       /\ \A k \in 1..Len(ai.requests) :
            (ai'.requests = RemoveAt(ai.requests, k)
                /\ cacheHist'.changes # cacheHist.changes
                /\ HasId(notes, ai.requests[k].id)) =>
                StartsWith(Find(notes', ai.requests[k].id).moodHistory,
                           Find(notes, ai.requests[k].id).moodHistory)]_vars

\* C27: a step that applies the result of an analysis or of a continuation
\* changes one note alone, the note that was selected when the request was
\* started, whichever note is selected at the time of the step.
C27_ResultGoesToRequestedNote ==
    [][notes' # notes =>
          /\ \A k \in 1..Len(ai.requests) :
                ai'.requests = RemoveAt(ai.requests, k) =>
                    UpdatesOnly(ai.requests[k].id)
          /\ \A k \in 1..Len(ai.continuing) :
                ai'.continuing = RemoveAt(ai.continuing, k) =>
                    UpdatesOnly(ai.continuing[k].id)]_vars

\* a continuation has just been appended to a note while another note is
\* selected
C27_Witness ==
    /\ pc = "save"
    /\ ai.continuing = <<>>
    /\ HasId(notes, selectedNoteId)
    /\ \E i \in 1..Len(notes) :
          /\ notes[i].id # selectedNoteId
          /\ notes[i].content > 10
          /\ notes[i].updatedAt = now
    /\ "aiSummary" \notin Find(notes, selectedNoteId).opt

\* C28: no step puts back a note that is not in the collection; with the
\* two notes of the start and no note created, the notes not in the
\* collection are those the user deleted, so the response to a request that
\* was started on a note deleted since leaves the collection without it.
C28_DeletedNoteStaysDeleted ==
    [][/\ Ids(notes') \subseteq Ids(notes)
       /\ (ai'.requests # ai.requests \/ ai'.continuing # ai.continuing) =>
             Ids(notes') = Ids(notes)]_vars

\* note 2 was deleted as the first change, with a request for it in flight;
\* the response came as the second change and the collection is the other
\* note, as it was
C28_Witness ==
    /\ notes = <<CachedNote>>
    /\ cacheHist.last.op = "delete"
    /\ cacheHist.last.id = OlderNote.id
    /\ cacheHist.last.at = 1
    /\ cacheHist.changes = 2
    /\ ai.requests = <<>>
    /\ ai.continuing = <<>>

\* C29: in every note with a mood history that is not empty, the mood field
\* is the mood of the last entry of the history.
C29_MoodIsLastEntry ==
    \A i \in 1..Len(notes) :
        Len(notes[i].moodHistory) > 0 =>
            /\ "mood" \in notes[i].opt
            /\ notes[i].mood = notes[i].moodHistory[Len(notes[i].moodHistory)].mood

\* an analysis gave the legacy note another mood and the user then picked a
\* colour for it
C29_Witness ==
    \E i \in 1..Len(notes) :
        /\ notes[i].id = OlderNote.id
        /\ notes[i].mood = "sad"
        /\ Len(notes[i].moodHistory) = 1
        /\ notes[i].moodHistory[1].mood = "sad"
        /\ notes[i].moodHistory[1].color = "#b"

\* C30: the selection is empty or the id of exactly one note of the
\* collection, and no two notes of the collection have the same id.
C30_SelectionAndIdsValid ==
    /\ selectedNoteId # NoId =>
          Cardinality({i \in 1..Len(notes) : notes[i].id = selectedNoteId}) = 1
    /\ \A i, j \in 1..Len(notes) : notes[i].id = notes[j].id => i = j

\* a note was created, and so selected, among the cached ones and the user
\* then deleted another note
C30_Witness ==
    /\ selectedNoteId > NumNotes
    /\ HasId(notes, selectedNoteId)
    /\ Len(notes) = 2
    /\ cacheHist.last.op = "delete"
    /\ cacheHist.last.sel = selectedNoteId
    /\ cacheHist.changes = 2

====
